---- MODULE Spec2Model ----
(***************************************************************************)
(* A model of src/custom-fetch.js: the static class CustomFetch, an        *)
(* in-memory response cache in front of the host's fetch().                *)
(*                                                                         *)
(* Strings that the code scans character by character (Cache-Control       *)
(* values, directive names) are sequences of one-character strings and     *)
(* are indexed from 0 as in JavaScript (see CharAt).  Date headers are     *)
(* HTTP-date strings, parsed by DateParse.  JavaScript numbers that can be *)
(* NaN are records [nan, v].                                               *)
(***************************************************************************)
EXTENDS Integers, Sequences, FiniteSets, TLC

VARIABLES
    \* ---- the program's state -------------------------------------------
    host,                        \* "node" | "browser": what setInterval returns
    now,                         \* Date.now(), in ms
    cachedResponses,             \* CustomFetch.cachedResponses (the Map)
    cleanupCacheIntervalTimeMS,  \* the static field, line 29
    cleanupCacheInterval,        \* CustomFetch.#cleanupCacheInterval, line 30
    timers,                      \* the host's active interval timers
    nextTimerId,                 \* the host's next timer id
    calls,                       \* every CustomFetch.fetch call made so far
    last,                        \* the operation that ran last and its outcome
    consumed,                    \* the Response objects whose body was read
    \* ---- inputs and results of the pure functions ----------------------
    headerStr, targetDir, maxIterationCount, directive,
    headers, currentDate, verdict,
    locals,                      \* the locals of getCacheControlDirective's loop
    requests, fingerprints,      \* two requests and the keys computed for them
    pc

vars == <<host, now, cachedResponses, cleanupCacheIntervalTimeMS,
          cleanupCacheInterval, timers, nextTimerId, calls, last, consumed,
          headerStr, targetDir, maxIterationCount, directive,
          headers, currentDate, verdict, locals, requests, fingerprints, pc>>

pureVars == <<headerStr, targetDir, maxIterationCount, directive,
              headers, currentDate, verdict, locals, requests, fingerprints,
              pc>>
sysVars == <<host, now, cachedResponses, cleanupCacheIntervalTimeMS,
             cleanupCacheInterval, timers, nextTimerId, calls, last,
             consumed>>
parserVars == <<headerStr, targetDir, maxIterationCount, directive, locals>>
policyVars == <<headers, currentDate, verdict>>
keyVars == <<requests, fingerprints>>

----------------------------------------------------------------------------
(* Bounds of the model.                                                    *)

MaxDirectives == 2      \* directives in a generated Cache-Control list
MaxMaxAge == 2          \* largest N of a generated max-age=N
MaxSeconds == 1         \* largest whole second of Date.now() considered
MaxCalls == 2           \* CustomFetch.fetch calls in one behaviour
MaxFields == 2          \* fields of a generated options object
MaxLiveCalls == 2       \* CustomFetch.fetch calls of a run that goes on forever
MaxTimers == 2          \* reconfigurations of the cleanup interval

----------------------------------------------------------------------------
(* JavaScript values.                                                      *)

\* Number.MAX_SAFE_INTEGER (line 152), saturated to the checker's integers;
\* the loop counter it is compared with never comes near either value.
MAX_SAFE_INTEGER == 2147483647

Undefined == "undefined"          \* what str[i] yields outside the string
Null == <<"null">>                \* null, distinct from every string

Num(n) == [nan |-> FALSE, v |-> n]
NaN == [nan |-> TRUE, v |-> 0]
NumLt(a, b) == ~a.nan /\ ~b.nan /\ a.v < b.v     \* a < b
NumGt(a, b) == ~a.nan /\ ~b.nan /\ a.v > b.v     \* a > b
NumAdd(a, b) == IF a.nan \/ b.nan THEN NaN ELSE Num(a.v + b.v)
NumMul(a, b) == IF a.nan \/ b.nan THEN NaN ELSE Num(a.v * b.v)

\* str[i]
CharAt(str, i) == IF i >= 0 /\ i < Len(str) THEN str[i + 1] ELSE Undefined

\* str.substring(from, to), for 0 <= from
Substring(str, from, to) ==
    LET t == IF to > Len(str) THEN Len(str) ELSE to
    IN  IF from >= t THEN <<>> ELSE SubSeq(str, from + 1, t)

\* does keyword occur in str at index i
OccursAt(str, keyword, i) ==
    /\ i >= 0
    /\ i + Len(keyword) <= Len(str)
    /\ \A j \in 1..Len(keyword) : str[i + j] = keyword[j]

\* str.indexOf(keyword, from): the position is clamped to [0, str.length]
IndexOf(str, keyword, from) ==
    LET f == IF from < 0 THEN 0 ELSE IF from > Len(str) THEN Len(str) ELSE from
        hits == {i \in f..Len(str) : OccursAt(str, keyword, i)}
    IN  IF hits = {} THEN -1
        ELSE CHOOSE i \in hits : \A j \in hits : i <= j

----------------------------------------------------------------------------
(* CustomFetch.getCacheControlDirective, lines 152-207.                    *)

dirSeparator == ","

\* The while (true) loop of lines 159-194, one iteration per unfolding.
\* Yields the loop's variables at its exit.
RECURSIVE ScanLoop(_, _, _, _, _, _)
ScanLoop(str, keyword, startIndex, hasEqualSign, i, maxIter) ==
    IF startIndex = -1 \/ i >= maxIter
    THEN [startIndex |-> startIndex, hasEqualSign |-> hasEqualSign, i |-> i]
    ELSE
      LET before == CharAt(str, startIndex - 1)
          beforeOk == before \in {Undefined, " "}
          after == CharAt(str, startIndex + Len(keyword))
          afterOk == after \in {"=", Undefined, dirSeparator}
      IN  IF ~beforeOk
          THEN ScanLoop(str, keyword, IndexOf(str, keyword, startIndex + 1),
                        hasEqualSign, i + 1, maxIter)
          ELSE IF afterOk
          THEN [startIndex |-> startIndex,
                hasEqualSign |-> (hasEqualSign \/ after = "="), i |-> i + 1]
          ELSE ScanLoop(str, keyword, -1, hasEqualSign, i + 1, maxIter)

getCacheControlDirectiveN(str, dir, maxIter) ==
    LET scan == ScanLoop(str, dir, IndexOf(str, dir, 0), FALSE, 0, maxIter)
        startIndex == scan.startIndex
        valueStartIndex == startIndex + Len(dir) + 1
        sepIndex == IndexOf(str, <<dirSeparator>>, valueStartIndex)
        valueEndIndex == IF sepIndex = -1 THEN Len(str) ELSE sepIndex
    IN  IF startIndex = -1 THEN Null
        ELSE IF ~scan.hasEqualSign THEN dir
        ELSE Substring(str, valueStartIndex, valueEndIndex)

\* with the default maxIterationCount
getCacheControlDirective(str, dir) ==
    getCacheControlDirectiveN(str, dir, MAX_SAFE_INTEGER)

----------------------------------------------------------------------------
(* The host functions the freshness policy calls.                          *)

\* The HTTP-date strings of the model: HttpDates[n + 1] is second n of the
\* epoch.
HttpDates == << "Thu, 01 Jan 1970 00:00:00 GMT",
                "Thu, 01 Jan 1970 00:00:01 GMT",
                "Thu, 01 Jan 1970 00:00:02 GMT",
                "Thu, 01 Jan 1970 00:00:03 GMT" >>

\* Date.parse(s): milliseconds since the epoch, NaN for an unparseable string
DateParse(s) ==
    IF \E n \in 1..Len(HttpDates) : HttpDates[n] = s
    THEN Num(1000 * ((CHOOSE n \in 1..Len(HttpDates) : HttpDates[n] = s) - 1))
    ELSE NaN

DigitValue(c) ==
    CASE c = "0" -> 0 [] c = "1" -> 1 [] c = "2" -> 2 [] c = "3" -> 3
      [] c = "4" -> 4 [] c = "5" -> 5 [] c = "6" -> 6 [] c = "7" -> 7
      [] c = "8" -> 8 [] c = "9" -> 9
      [] c \in {"a", "A"} -> 10 [] c \in {"b", "B"} -> 11
      [] c \in {"c", "C"} -> 12 [] c \in {"d", "D"} -> 13
      [] c \in {"e", "E"} -> 14 [] c \in {"f", "F"} -> 15
      [] OTHER -> 99

\* the number of leading characters of str that are digits of the radix
RECURSIVE DigitPrefixLen(_, _)
DigitPrefixLen(str, radix) ==
    IF str = <<>> \/ DigitValue(Head(str)) >= radix THEN 0
    ELSE 1 + DigitPrefixLen(Tail(str), radix)

\* the value of a string of digits of the radix
RECURSIVE DigitsValue(_, _)
DigitsValue(str, radix) ==
    IF str = <<>> THEN 0
    ELSE DigitsValue(SubSeq(str, 1, Len(str) - 1), radix) * radix
           + DigitValue(str[Len(str)])

\* A character of a string of the model is an ASCII character written as
\* itself, or a character that TLA+ cannot write in a string, named by its
\* code point: "U+00A0" is the one character U+00A0.

\* The white space parseInt skips (StrWhiteSpaceChar), 25 code points:
\* U+0009-U+000D, U+0020, U+00A0, U+1680, U+2000-U+200A, U+2028, U+2029,
\* U+202F, U+205F, U+3000 and U+FEFF.
WhiteSpace ==
    { "\t", "\n", "U+000B", "\f", "\r", " ", "U+00A0", "U+1680",
      "U+2000", "U+2001", "U+2002", "U+2003", "U+2004", "U+2005", "U+2006",
      "U+2007", "U+2008", "U+2009", "U+200A",
      "U+2028", "U+2029", "U+202F", "U+205F", "U+3000", "U+FEFF" }

RECURSIVE TrimStart(_)
TrimStart(str) ==
    IF str # <<>> /\ Head(str) \in WhiteSpace THEN TrimStart(Tail(str))
    ELSE str

\* parseInt(str) of a string: leading white space, a sign, an optional 0x
\* prefix, then the longest run of digits; NaN when there is no digit
ParseInt(str) ==
    LET s1 == TrimStart(str)
        negative == s1 # <<>> /\ Head(s1) = "-"
        s2 == IF s1 # <<>> /\ Head(s1) \in {"-", "+"} THEN Tail(s1) ELSE s1
        hex == Len(s2) >= 2 /\ s2[1] = "0" /\ s2[2] \in {"x", "X"}
        radix == IF hex THEN 16 ELSE 10
        s3 == IF hex THEN Tail(Tail(s2)) ELSE s2
        n == DigitPrefixLen(s3, radix)
        magnitude == DigitsValue(SubSeq(s3, 1, n), radix)
    IN  IF n = 0 THEN NaN
        ELSE Num(IF negative THEN 0 - magnitude ELSE magnitude)

----------------------------------------------------------------------------
(* Response headers: cc, date and expires are what headers.get() yields    *)
(* for Cache-Control, Date and Expires.  An absent header and an empty one *)
(* are both falsy at every use, and both are the empty string here.        *)

max_age == <<"m", "a", "x", "-", "a", "g", "e">>
no_cache == <<"n", "o", "-", "c", "a", "c", "h", "e">>
no_store == <<"n", "o", "-", "s", "t", "o", "r", "e">>

\* CustomFetch.isCacheExpired, lines 91-111
maxAgeSeconds(cacheControl) ==
    LET d == getCacheControlDirective(cacheControl, max_age)
    IN  NumMul(IF d = Null \/ d = <<>> THEN Num(0) ELSE ParseInt(d), Num(1000))

\* isCacheExpired with <= for the < of line 101
isCacheExpiredAtEquality(h, date) ==
    \/ /\ h.cc # <<>>
       /\ h.date # ""
       /\ ~NumGt(NumAdd(DateParse(h.date), maxAgeSeconds(h.cc)), Num(date))
       /\ ~NumAdd(DateParse(h.date), maxAgeSeconds(h.cc)).nan
    \/ /\ h.expires # ""
       /\ NumLt(DateParse(h.expires), Num(date))

isCacheExpired(h, date) ==
    \/ /\ h.cc # <<>>
       /\ h.date # ""
       /\ NumLt(NumAdd(DateParse(h.date), maxAgeSeconds(h.cc)), Num(date))
    \/ /\ h.expires # ""
       /\ NumLt(DateParse(h.expires), Num(date))

\* CustomFetch.checkIfShouldCache, lines 118-135
checkIfShouldCache(h, date) ==
    \/ /\ h.cc # <<>>
       /\ getCacheControlDirective(h.cc, no_cache) # no_cache
       /\ getCacheControlDirective(h.cc, no_store) # no_store
       /\ getCacheControlDirective(h.cc, max_age) # <<"0">>
    \/ /\ h.expires # ""
       /\ NumGt(DateParse(h.expires), Num(date))

----------------------------------------------------------------------------
(* The inputs the pure functions are applied to.                           *)

Digits == <<"0", "1", "2", "3", "4", "5", "6", "7", "8", "9">>

\* the decimal numeral of n >= 0
RECURSIVE Numeral(_)
Numeral(n) ==
    IF n < 10 THEN <<Digits[n + 1]>>
    ELSE Numeral(n \div 10) \o <<Digits[(n % 10) + 1]>>

\* the directive max-age=n
MaxAgeDirective(n) == max_age \o <<"=">> \o Numeral(n)

\* the directive max-age=n with a TAB before n, which parseInt skips
MaxAgeDirectiveAfterTab(n) == max_age \o <<"=", "\t">> \o Numeral(n)

public == <<"p", "u", "b", "l", "i", "c">>
max_age_extended ==
    max_age \o <<"-", "e", "x", "t", "e", "n", "d", "e", "d", "=", "5">>

DirectiveTokens ==
    {no_cache, no_store, public, max_age_extended}
       \cup {MaxAgeDirective(n) : n \in 0..MaxMaxAge}

\* what stands between two directives: the two layouts of a well-formed list,
\* and a lone space
Separators == {<<",">>, <<",", " ">>, <<" ">>}

\* the header values made of n directives
RECURSIVE HeaderStrsOf(_)
HeaderStrsOf(n) ==
    IF n = 1 THEN DirectiveTokens
    ELSE {h \o sep \o d : h \in HeaderStrsOf(n - 1), sep \in Separators,
                          d \in DirectiveTokens}

HeaderStrs == UNION {HeaderStrsOf(n) : n \in 1..MaxDirectives}

TargetDirs == {max_age, no_cache, no_store, <<>>}
MaxIterationCounts == {0, 1, MAX_SAFE_INTEGER}

\* the values of Date.now(), in ms: every whole second up to MaxSeconds and
\* the millisecond after it
Times == {1000 * sec + ms : sec \in 0..MaxSeconds, ms \in {0, 1}}

\* the values of a Date or Expires header: absent, dates, an unparseable one
DateStrs == {"", "soon"} \cup {HttpDates[n] : n \in 1..(MaxSeconds + 1)}

HeaderSets ==
    [cc : HeaderStrs \cup {<<>>}
             \cup {MaxAgeDirectiveAfterTab(n) : n \in 0..MaxMaxAge},
     date : DateStrs, expires : DateStrs]
NoHeaders == [cc |-> <<>>, date |-> "", expires |-> ""]

NoVerdict == [op |-> "none", value |-> FALSE]

NotCalled == <<"not called">>

\* the loop's locals before getCacheControlDirective is entered
ScanIdle ==
    [startIndex |-> 0, hasEqualSign |-> FALSE, i |-> 0, exit |-> "idle"]

ParserIdle ==
    /\ headerStr = <<>> /\ targetDir = <<>>
    /\ maxIterationCount = 0 /\ directive = NotCalled
    /\ locals = ScanIdle
PolicyIdle == headers = NoHeaders /\ currentDate = 0 /\ verdict = NoVerdict
KeyIdle == requests = <<>> /\ fingerprints = <<>>

----------------------------------------------------------------------------
(* The cache-cleanup interval, lines 29-42 and 209-218.                    *)

\* the values a caller can assign to the interval
JSNum(n) == [type |-> "number", nan |-> FALSE, v |-> n]
JSNaN == [type |-> "number", nan |-> TRUE, v |-> 0]
JSString == [type |-> "string", nan |-> TRUE, v |-> 0]       \* "abc"
JSUndefined == [type |-> "undefined", nan |-> TRUE, v |-> 0]
IntervalInputs ==
    {JSUndefined, JSString, JSNaN, JSNum(-1), JSNum(0), JSNum(1), JSNum(5000)}

DefaultIntervalTimeMS == 10000        \* 1000 * 10, line 29

\* the initial value of #cleanupCacheInterval, -Infinity (line 30): a number
\* that names no timer
NegInfinity == [type |-> "number", timer |-> 0]

\* what setInterval returns for the timer it created: a number in a browser,
\* a Timeout object in Node.js
SetIntervalResult(h, id) ==
    [type |-> IF h = "browser" THEN "number" ELSE "object", timer |-> id]

\* clearInterval(handle)
ClearInterval(tms, handle) == {t \in tms : t.id # handle.timer}

\* the test of line 33
IsInvalidInterval(ms) == ms.type # "number" \/ ms.nan \/ ms.v < 1

\* CustomFetch.#setCleanupCacheInterval, lines 209-218: the timers, the handle
\* and the host's next timer id after the call
setCleanupCacheInterval(h, tms, temp, id, ms) ==
    LET remaining == IF temp.type = "number" THEN ClearInterval(tms, temp)
                     ELSE tms
    IN  [timers |-> remaining \cup {[id |-> id, period |-> ms]},
         handle |-> SetIntervalResult(h, id),
         nextTimerId |-> id + 1]

----------------------------------------------------------------------------
(* The store and CustomFetch.fetch, lines 47-84.                           *)

Resources == {"", "/a"}
OptionSets == {<<>>, << <<"method", "GET">> >>}

\* An options object is the sequence of its fields in the order they were
\* added.  <<name, text>> is a field whose value is the string text;
\* <<name, kind, content>> is a field whose value is undefined (kind
\* "undefined") or an object without enumerable properties of its own, such
\* as a Headers instance (kind "Headers") with the given content.

\* JSON.stringify of a string without characters to escape
Quote(str) == "\"" \o str \o "\""

\* JSON.stringify leaves out the fields whose value is undefined
Serialised(field) == Len(field) = 2 \/ field[2] # "undefined"

\* one member of the JSON text of an object: an object without enumerable
\* properties is written {}
Member(field) ==
    Quote(field[1]) \o ":" \o (IF Len(field) = 2 THEN Quote(field[2]) ELSE "{}")

\* the members of the JSON text, in the order of the fields
RECURSIVE Members(_)
Members(fields) ==
    IF fields = <<>> THEN ""
    ELSE IF Len(fields) = 1 THEN Member(fields[1])
    ELSE Member(fields[1]) \o "," \o Members(Tail(fields))

\* JSON.stringify(options)
Stringify(options) ==
    "{" \o Members(SelectSeq(options, Serialised)) \o "}"

\* JSON.stringify({ resource, options }), lines 54 and 65
Key(resource, options) ==
    "{\"resource\":" \o Quote(resource)
        \o ",\"options\":" \o Stringify(options) \o "}"

cc_max_age_1 == MaxAgeDirective(1)

\* what the transport can answer with: status and headers
TransportResponses ==
    { [status |-> 200, headers |->
         [cc |-> cc_max_age_1, date |-> HttpDates[2], expires |-> ""]],
      [status |-> 203, headers |->
         [cc |-> cc_max_age_1, date |-> HttpDates[1], expires |-> ""]],
      [status |-> 201, headers |->
         [cc |-> no_store, date |-> "", expires |-> HttpDates[3]]],
      [status |-> 404, headers |-> NoHeaders] }

\* a Response object: origin is the transport call that produced it
Response(r, origin) ==
    [status |-> r.status, headers |-> r.headers, origin |-> origin]
NoResponse == [status |-> 0, headers |-> NoHeaders, origin |-> 0]

\* response.clone()
Clone(r) == r

\* The Response objects of a run.  Response and Clone give the content of an
\* object; which object it is follows from where it was made: the transport
\* makes one object per call (line 60), line 66 makes one clone per stored
\* response and line 57 one clone per hit.
TransportObject(i) == <<"transport", i>>
HitObject(i) == <<"hit", i>>

\* line 66 storing res itself: the entry is the object the caller holds
StoredAliased(entry) == TransportObject(entry.origin)

\* the object that is the entry of the store: the clone line 66 made of the
\* response of call entry.origin
StoredObject(entry) == <<"clone", entry.origin>>

\* the object the caller of call i holds once its promise has resolved:
\* the clone of line 57 or the transport's response (line 68)
CallerObject(i) ==
    IF calls[i].state = "hit" THEN HitObject(i) ELSE TransportObject(i)

\* Map.get: NoResponse stands for undefined
MapGet(m, k) == IF k \in DOMAIN m THEN m[k] ELSE NoResponse
\* Map.set
MapSet(m, k, r) == [x \in DOMAIN m \cup {k} |-> IF x = k THEN r ELSE m[x]]

\* the test of line 56 without its isCacheExpired half
ServedFromStoreWhenStored(value, t) == value # NoResponse

\* the test of line 56
ServedFromStore(value, t) ==
    value # NoResponse /\ ~isCacheExpired(value.headers, t)

\* the test of line 50 that lets every resource through
NoResourceIsInvalid(resource) == FALSE

\* the test of line 50, !resource
IsInvalidResource(resource) == resource = ""

\* the continuation of lines 61-67 when nothing in it throws: the store
\* after it has run for res
populate(m, key, res, t) ==
    IF checkIfShouldCache(res.headers, t) THEN MapSet(m, key, Clone(res))
    ELSE m

\* line 68 returning the promise of then() of line 61: an exception of the
\* continuation would reject the promise the caller holds
ReturnsDerivedPromise(threw) == IF threw THEN "failed" ELSE "resolved"

\* line 68: fetch returns resPromise itself, which the transport has
\* fulfilled; the continuation of line 61 settles only the promise that
\* then() returned, which nobody holds
ReturnedPromiseState(threw) == "resolved"

\* cleanup with the delete of line 75 left out
cleanupNothing(m, t) == m

\* cleanup with the test of line 74 negated
cleanupFresh(m, t) ==
    [k \in {x \in DOMAIN m : isCacheExpired(m[x].headers, t)} |-> m[k]]

\* cleanup that stops after the first entry it deletes
cleanupOne(m, t) ==
    LET expired == {x \in DOMAIN m : isCacheExpired(m[x].headers, t)}
    IN  IF expired = {} THEN m
        ELSE [k \in DOMAIN m \ {CHOOSE x \in expired : TRUE} |-> m[k]]

\* CustomFetch.cleanup, lines 71-77: the store after the sweep
cleanup(m, t) ==
    [k \in {x \in DOMAIN m : ~isCacheExpired(m[x].headers, t)} |-> m[k]]

ResolvedCalls == {i \in DOMAIN calls : calls[i].state = "resolved"}

----------------------------------------------------------------------------
(* The class after its static initialisation (lines 29-31 and 47).         *)

SystemInit(hosts) ==
    /\ host \in hosts
    /\ now = 0
    /\ cachedResponses = <<>>
    /\ cleanupCacheIntervalTimeMS = JSNum(DefaultIntervalTimeMS)
    /\ LET t == setCleanupCacheInterval(host, {}, NegInfinity, 1,
                                        DefaultIntervalTimeMS)
       IN  /\ timers = t.timers
           /\ cleanupCacheInterval = t.handle
           /\ nextTimerId = t.nextTimerId
    /\ calls = <<>>
    /\ last = [op |-> "init"]
    /\ consumed = {}

\* The handle of the one timer is never read when the interval is left alone
Init ==
    SystemInit({"node"}) /\ pc = "fetch" /\ ParserIdle /\ PolicyIdle /\ KeyIdle

\* CustomFetch.fetch(resource, options), lines 49-69, up to the return
Fetch(resource, options) ==
    /\ Len(calls) < MaxCalls
    /\ LET key == Key(resource, options)
           value == MapGet(cachedResponses, key)
           call == [resource |-> resource, options |-> options, at |-> now,
                    issuedAfter |-> Cardinality(ResolvedCalls), order |-> 0,
                    unserialisable |-> FALSE, stored |-> FALSE,
                    unhandled |-> FALSE]
       IN  calls' = Append(calls,
             IF IsInvalidResource(resource)
             THEN call @@ [state |-> "rejected", found |-> NoResponse,
                           transport |-> 0, response |-> NoResponse]
             ELSE IF ServedFromStore(value, now)
             THEN call @@ [state |-> "hit", found |-> value,
                           transport |-> 0, response |-> Clone(value)]
             ELSE call @@ [state |-> "pending", found |-> value,
                           transport |-> 1, response |-> NoResponse])
    /\ last' = [op |-> "fetch", call |-> Len(calls) + 1]
    /\ UNCHANGED <<host, now, cachedResponses, cleanupCacheIntervalTimeMS,
                   cleanupCacheInterval, timers, nextTimerId, consumed,
                   pureVars>>

\* The continuation of lines 61-67 throws for the response res of call i:
\* past the return of line 63, JSON.stringify of line 65 throws on options
\* that can no longer be serialised and clone() of line 66 throws on a
\* response whose body has been read.
ContinuationThrows(i, res, t) ==
    /\ checkIfShouldCache(res.headers, t)
    /\ \/ calls[i].unserialisable
       \/ TransportObject(i) \in consumed

\* The transport call of fetch call i resolves with r: the continuation of
\* lines 61-67 runs, then the reactions of the caller on the promise that
\* line 68 returned.  When the continuation throws, before the set of line
\* 66, the store is as it was and the promise that then() returned at line
\* 61 is rejected, which nothing handles.
TransportResolves(i, r) ==
    /\ calls[i].state = "pending"
    /\ LET res == Response(r, i)
           shouldCache == checkIfShouldCache(res.headers, now)
           threw == ContinuationThrows(i, res, now)
           key == Key(calls[i].resource, calls[i].options)
       IN  /\ cachedResponses' =
                 IF threw THEN cachedResponses
                 ELSE populate(cachedResponses, key, res, now)
           /\ calls' = [calls EXCEPT ![i].state = ReturnedPromiseState(threw),
                                     ![i].response = res,
                                     ![i].stored = (shouldCache /\ ~threw),
                                     ![i].unhandled = threw,
                                     ![i].order = Cardinality(ResolvedCalls) + 1]
    /\ last' = [op |-> "resolve", call |-> i]
    /\ UNCHANGED <<host, now, cleanupCacheIntervalTimeMS,
                   cleanupCacheInterval, timers, nextTimerId, consumed,
                   pureVars>>

\* The caller changes the options object of call i while the transport call
\* is pending, so that JSON.stringify throws on it: a reference to itself,
\* a BigInt value.  Line 65 reads the object again.
OptionsBecomeUnserialisable(i) ==
    /\ calls[i].state = "pending"
    /\ ~calls[i].unserialisable
    /\ calls' = [calls EXCEPT ![i].unserialisable = TRUE]
    /\ last' = [op |-> "options", call |-> i]
    /\ UNCHANGED <<host, now, cachedResponses, cleanupCacheIntervalTimeMS,
                   cleanupCacheInterval, timers, nextTimerId, consumed,
                   pureVars>>

\* The transport of call i, a global fetch that has been wrapped, reads the
\* body of the response before it fulfils its promise with it
TransportReadsBody(i) ==
    /\ calls[i].state = "pending"
    /\ TransportObject(i) \notin consumed
    /\ consumed' = consumed \cup {TransportObject(i)}
    /\ last' = [op |-> "transport body", call |-> i]
    /\ UNCHANGED <<host, now, cachedResponses, cleanupCacheIntervalTimeMS,
                   cleanupCacheInterval, timers, nextTimerId, calls, pureVars>>

\* The transport call of fetch call i fails: the caller's promise is rejected
\* with the transport's error.  So is the promise that then() returned at
\* line 61, which nothing handles.
TransportRejects(i) ==
    /\ calls[i].state = "pending"
    /\ calls' = [calls EXCEPT ![i].state = "failed", ![i].unhandled = TRUE]
    /\ last' = [op |-> "reject", call |-> i]
    /\ UNCHANGED <<host, now, cachedResponses, cleanupCacheIntervalTimeMS,
                   cleanupCacheInterval, timers, nextTimerId, consumed,
                   pureVars>>

\* The caller of call i reads the body of the response its promise resolved
\* with.  Its reactions run after the continuation of lines 61-67, which was
\* attached to the promise before fetch returned it.
ConsumeBody(i) ==
    /\ calls[i].state \in {"hit", "resolved"}
    /\ CallerObject(i) \notin consumed
    /\ consumed' = consumed \cup {CallerObject(i)}
    /\ last' = [op |-> "body", call |-> i]
    /\ UNCHANGED <<host, now, cachedResponses, cleanupCacheIntervalTimeMS,
                   cleanupCacheInterval, timers, nextTimerId, calls, pureVars>>

\* An interval timer fires and runs CustomFetch.cleanup, lines 71-77
TimerFires(t) ==
    /\ t \in timers
    /\ cachedResponses' = cleanup(cachedResponses, now)
    /\ last' = [op |-> "cleanup", timer |-> t.id]
    /\ UNCHANGED <<host, now, cleanupCacheIntervalTimeMS,
                   cleanupCacheInterval, timers, nextTimerId, calls, consumed,
                   pureVars>>

\* CustomFetch.clearAllCache(), lines 82-84
clearAllCache ==
    /\ last' = [op |-> "clearAllCache"]
    /\ UNCHANGED <<host, now, cachedResponses, cleanupCacheIntervalTimeMS,
                   cleanupCacheInterval, timers, nextTimerId, calls, consumed,
                   pureVars>>

\* The setter cleanupCacheIntervalTimeMS, lines 32-42, called with arg.  It is
\* an accessor of CustomFetch.prototype: an assignment to the property of an
\* instance runs it.
SetCleanupCacheIntervalTimeMS(arg) ==
    LET ms == IF arg.type = "undefined" THEN JSNum(-1) ELSE arg
    IN  /\ last' = [op |-> "set", arg |-> arg]
        /\ IF IsInvalidInterval(ms)
           THEN UNCHANGED <<cleanupCacheIntervalTimeMS, cleanupCacheInterval,
                            timers, nextTimerId>>
           ELSE /\ nextTimerId <= MaxTimers + 1
                /\ cleanupCacheIntervalTimeMS' = ms
                /\ LET t == setCleanupCacheInterval(host, timers,
                                cleanupCacheInterval, nextTimerId, ms.v)
                   IN  /\ timers' = t.timers
                       /\ cleanupCacheInterval' = t.handle
                       /\ nextTimerId' = t.nextTimerId
        /\ UNCHANGED <<host, now, cachedResponses, calls, consumed, pureVars>>

\* CustomFetch.cleanupCacheIntervalTimeMS = arg: the static field of line 29
\* is a data property of the class itself, so the assignment writes it and
\* the setter of the prototype does not run.
AssignCleanupCacheIntervalTimeMS(arg) ==
    /\ cleanupCacheIntervalTimeMS' = arg
    /\ last' = [op |-> "assign", arg |-> arg]
    /\ UNCHANGED <<host, now, cachedResponses, cleanupCacheInterval, timers,
                   nextTimerId, calls, consumed, pureVars>>

\* Date.now() moves on
TimePasses ==
    /\ \E t \in Times : t > now /\ now' = t
    /\ last' = [op |-> "time"]
    /\ UNCHANGED <<host, cachedResponses, cleanupCacheIntervalTimeMS,
                   cleanupCacheInterval, timers, nextTimerId, calls, consumed,
                   pureVars>>

\* Fetches, their resolutions, sweeps and the passing of time
Next ==
    \/ \E resource \in Resources, options \in OptionSets :
           Fetch(resource, options)
    \/ \E i \in DOMAIN calls, r \in TransportResponses :
           TransportResolves(i, r)
    \/ \E t \in timers : TimerFires(t)
    \/ clearAllCache
    \/ TimePasses

Spec == Init /\ [][Next]_vars

\* The same, with transport calls that can fail
NextFailure ==
    \/ \E resource \in Resources, options \in OptionSets :
           Fetch(resource, options)
    \/ \E i \in DOMAIN calls, r \in TransportResponses :
           TransportResolves(i, r)
    \/ \E i \in DOMAIN calls : TransportRejects(i)
    \/ \E t \in timers : TimerFires(t)
    \/ TimePasses

SpecFailure == Init /\ [][NextFailure]_vars

\* Fetches whose continuation can throw
NextPopulation ==
    \/ \E resource \in Resources, options \in OptionSets :
           Fetch(resource, options)
    \/ \E i \in DOMAIN calls : OptionsBecomeUnserialisable(i)
    \/ \E i \in DOMAIN calls : TransportReadsBody(i)
    \/ \E i \in DOMAIN calls, r \in TransportResponses :
           TransportResolves(i, r)
    \/ \E t \in timers : TimerFires(t)
    \/ TimePasses

SpecPopulation == Init /\ [][NextPopulation]_vars

\* A time after every expiry that the Date, Expires and max-age values of
\* the model can give
FarFuture == 1000 * (Len(HttpDates) + MaxMaxAge)
LiveTimes == Times \cup {FarFuture}

\* a max-age value that parseInt reads as NaN
max_age_abc == max_age \o <<"=", "a", "b", "c">>

\* the transport's answers, and three whose headers give no expiry time:
\* max-age without a Date header, max-age with a Date that Date.parse does
\* not read, and a Date with a max-age that parseInt does not read
LiveResponses ==
    TransportResponses \cup
    { [status |-> 202, headers |->
         [cc |-> cc_max_age_1, date |-> "", expires |-> ""]],
      [status |-> 204, headers |->
         [cc |-> cc_max_age_1, date |-> "soon", expires |-> ""]],
      [status |-> 206, headers |->
         [cc |-> max_age_abc, date |-> HttpDates[1], expires |-> ""]] }

\* Date.now() moves on, as far as FarFuture
TimeAdvances ==
    /\ \E t \in LiveTimes : t > now /\ now' = t
    /\ last' = [op |-> "time"]
    /\ UNCHANGED <<host, cachedResponses, cleanupCacheIntervalTimeMS,
                   cleanupCacheInterval, timers, nextTimerId, calls, consumed,
                   pureVars>>

Sweep == \E t \in timers : TimerFires(t)

\* Fetches, resolutions, sweeps and time without end
NextLive ==
    \/ \E options \in OptionSets :
           Len(calls) < MaxLiveCalls /\ Fetch("/a", options)
    \/ \E i \in DOMAIN calls, r \in LiveResponses :
           TransportResolves(i, r)
    \/ Sweep
    \/ TimeAdvances

\* ENABLED <<Sweep>>_vars as a predicate of the state: a timer whose sweep
\* changes the store or is not the operation that ran last
SweepEnabled ==
    \E t \in timers :
        \/ cleanup(cachedResponses, now) # cachedResponses
        \/ last # [op |-> "cleanup", timer |-> t.id]

\* Time goes on, WF_vars(TimeAdvances), and the interval timer of lines
\* 215-217 keeps firing, WF_vars(Sweep); the latter is written out with
\* SweepEnabled for ENABLED <<Sweep>>_vars.
SpecLive ==
    /\ Init /\ [][NextLive]_vars
    /\ WF_vars(TimeAdvances)
    /\ (<>[]SweepEnabled => []<><<Sweep>>_vars)

\* Fetches whose callers read the bodies of their responses
NextBody ==
    \/ \E resource \in Resources, options \in OptionSets :
           Fetch(resource, options)
    \/ \E i \in DOMAIN calls, r \in TransportResponses :
           TransportResolves(i, r)
    \/ \E i \in DOMAIN calls : ConsumeBody(i)

SpecBody == Init /\ [][NextBody]_vars

\* Reconfigurations of the cleanup interval and the sweeps of its timers
InitInterval ==
    /\ SystemInit({"node", "browser"}) /\ pc = "interval"
    /\ ParserIdle /\ PolicyIdle /\ KeyIdle

NextInterval ==
    \/ \E arg \in IntervalInputs : SetCleanupCacheIntervalTimeMS(arg)
    \/ \E arg \in IntervalInputs : AssignCleanupCacheIntervalTimeMS(arg)
    \/ \E t \in timers : TimerFires(t)
    \/ TimePasses

SpecInterval == InitInterval /\ [][NextInterval]_vars

----------------------------------------------------------------------------
(* getCacheControlDirective applied to every header, name and limit.       *)

InitParser ==
    /\ SystemInit({"node"}) /\ PolicyIdle /\ KeyIdle
    /\ pc = "parse"
    /\ headerStr \in HeaderStrs
    /\ targetDir \in TargetDirs
    /\ maxIterationCount \in MaxIterationCounts
    /\ directive = NotCalled
    /\ locals = ScanIdle

GetCacheControlDirectiveCall ==
    /\ pc = "parse"
    /\ directive' =
          getCacheControlDirectiveN(headerStr, targetDir, maxIterationCount)
    /\ pc' = "parsed"
    /\ UNCHANGED <<sysVars, policyVars, keyVars, headerStr, targetDir,
                   maxIterationCount, locals>>

NextParser == GetCacheControlDirectiveCall

SpecParser == InitParser /\ [][NextParser]_vars

----------------------------------------------------------------------------
(* The key of lines 54 and 65 computed for two requests.                   *)

\* the fields an options object of the model can have
KeyFields ==
    { <<"method", "GET">>, <<"method", "POST">>, <<"mode", "cors">>,
      <<"headers", "Headers", "x-a: 1">>, <<"headers", "Headers", "x-a: 2">>,
      <<"signal", "undefined", "">> }

\* the options objects of n fields: no two fields of an object share a name
RECURSIVE KeyOptionsOf(_)
KeyOptionsOf(n) ==
    IF n = 0 THEN {<<>>}
    ELSE {Append(o, f) : o \in KeyOptionsOf(n - 1), f \in KeyFields}

DistinctNames(o) ==
    \A a, b \in 1..Len(o) : o[a][1] = o[b][1] => a = b

KeyOptionSets ==
    {o \in UNION {KeyOptionsOf(n) : n \in 0..MaxFields} : DistinctNames(o)}

KeyRequests == [resource : {"/a", "/b"}, options : KeyOptionSets]

InitKey ==
    /\ SystemInit({"node"}) /\ ParserIdle /\ PolicyIdle
    /\ pc = "key"
    /\ requests \in KeyRequests \X KeyRequests
    /\ fingerprints = <<>>

\* line 54 run for each of the two requests
KeyCall ==
    /\ pc = "key"
    /\ fingerprints' = << Key(requests[1].resource, requests[1].options),
                          Key(requests[2].resource, requests[2].options) >>
    /\ pc' = "keyed"
    /\ UNCHANGED <<sysVars, parserVars, policyVars, requests>>

NextKey == KeyCall

SpecKey == InitKey /\ [][NextKey]_vars

----------------------------------------------------------------------------
(* getCacheControlDirective run one pass of its loop at a time.            *)

\* the headers of the scan: those of the parser, the empty header, and
\* headers that begin with a separator, whose first directive has a
\* character before it
ScanHeaderStrs ==
    HeaderStrs \cup {<<>>} \cup {<<dirSeparator>> \o h : h \in HeaderStrs}

InitScan ==
    /\ SystemInit({"node"}) /\ PolicyIdle /\ KeyIdle
    /\ pc = "scan"
    /\ headerStr \in ScanHeaderStrs
    /\ targetDir \in TargetDirs
    /\ maxIterationCount \in MaxIterationCounts
    /\ directive = NotCalled
    /\ locals = ScanIdle

\* lines 153-157: the locals before the loop
ScanEnter ==
    /\ pc = "scan"
    /\ locals' = [startIndex |-> IndexOf(headerStr, targetDir, 0),
                hasEqualSign |-> FALSE, i |-> 0, exit |-> "none"]
    /\ pc' = "loop"
    /\ UNCHANGED <<sysVars, policyVars, keyVars, headerStr, targetDir,
                   maxIterationCount, directive>>

\* line 173 with the search resumed where it stands
SameMatch(str, keyword, startIndex) == IndexOf(str, keyword, startIndex)

\* line 173: the next match of the name after the one at startIndex
NextMatch(str, keyword, startIndex) == IndexOf(str, keyword, startIndex + 1)

\* lines 159-194: one pass of while (true), from its top to a break, a
\* continue or its end
ScanPass ==
    /\ pc = "loop"
    /\ IF locals.startIndex = -1
       THEN locals' = [locals EXCEPT !.exit = "not found"] /\ pc' = "exit"
       ELSE IF locals.i >= maxIterationCount
       THEN locals' = [locals EXCEPT !.exit = "limit"] /\ pc' = "exit"
       ELSE
         LET before == CharAt(headerStr, locals.startIndex - 1)
             beforeOk == before \in {Undefined, " "}
             after == CharAt(headerStr, locals.startIndex + Len(targetDir))
             afterOk == after \in {"=", Undefined, dirSeparator}
         IN  IF ~beforeOk
             THEN /\ locals' = [locals EXCEPT
                                !.i = @ + 1,
                                !.startIndex =
                                    NextMatch(headerStr, targetDir, @)]
                  /\ pc' = "loop"
             ELSE IF afterOk
             THEN /\ locals' = [locals EXCEPT
                                !.i = @ + 1,
                                !.hasEqualSign = (@ \/ after = "="),
                                !.exit = "found"]
                  /\ pc' = "exit"
             ELSE /\ locals' = [locals EXCEPT !.i = @ + 1, !.startIndex = -1]
                  /\ pc' = "loop"
    /\ UNCHANGED <<sysVars, policyVars, keyVars, headerStr, targetDir,
                   maxIterationCount, directive>>

\* lines 196-206: the value returned after the loop
ScanReturn ==
    /\ pc = "exit"
    /\ directive' =
          LET startIndex == locals.startIndex
              valueStartIndex == startIndex + Len(targetDir) + 1
              sepIndex == IndexOf(headerStr, <<dirSeparator>>, valueStartIndex)
              valueEndIndex == IF sepIndex = -1 THEN Len(headerStr) ELSE sepIndex
          IN  IF startIndex = -1 THEN Null
              ELSE IF ~locals.hasEqualSign THEN targetDir
              ELSE Substring(headerStr, valueStartIndex, valueEndIndex)
    /\ pc' = "returned"
    /\ UNCHANGED <<sysVars, policyVars, keyVars, headerStr, targetDir,
                   maxIterationCount, locals>>

NextScan == ScanEnter \/ ScanPass \/ ScanReturn

\* a call that has started runs on: nothing suspends the function
SpecScan == InitScan /\ [][NextScan]_vars /\ WF_vars(NextScan)

----------------------------------------------------------------------------
(* isCacheExpired and checkIfShouldCache applied to every header set and   *)
(* reference time.                                                         *)

InitPolicy ==
    /\ SystemInit({"node"}) /\ ParserIdle /\ KeyIdle
    /\ pc = "policy"
    /\ headers \in HeaderSets
    /\ currentDate \in Times
    /\ verdict = NoVerdict

IsCacheExpiredCall ==
    /\ pc = "policy"
    /\ verdict' = [op |-> "isCacheExpired",
                   value |-> isCacheExpired(headers, currentDate)]
    /\ pc' = "decided"
    /\ UNCHANGED <<sysVars, parserVars, keyVars, headers, currentDate>>

CheckIfShouldCacheCall ==
    /\ pc = "policy"
    /\ verdict' = [op |-> "checkIfShouldCache",
                   value |-> checkIfShouldCache(headers, currentDate)]
    /\ pc' = "decided"
    /\ UNCHANGED <<sysVars, parserVars, keyVars, headers, currentDate>>

NextPolicy == IsCacheExpiredCall \/ CheckIfShouldCacheCall

SpecPolicy == InitPolicy /\ [][NextPolicy]_vars

----------------------------------------------------------------------------
(* What the claims say, in the claims' own terms.                          *)

\* the pieces of str between the occurrences of the character c
RECURSIVE SplitOn(_, _)
SplitOn(str, c) ==
    LET at == IndexOf(str, <<c>>, 0)
    IN  IF at = -1 THEN <<str>>
        ELSE <<Substring(str, 0, at)>>
               \o SplitOn(Substring(str, at + 1, Len(str)), c)

\* the directives of a Cache-Control list: the pieces between commas, less
\* the one space that may follow a comma
ListItems(str) ==
    LET pieces == SplitOn(str, ",")
    IN  [k \in 1..Len(pieces) |->
            IF k > 1 /\ pieces[k] # <<>> /\ Head(pieces[k]) = " "
            THEN Tail(pieces[k]) ELSE pieces[k]]

\* a list whose separators are a comma or a comma and one space
WellFormedList(str) ==
    \A k \in 1..Len(ListItems(str)) :
        LET item == ListItems(str)[k]
        IN  item # <<>> /\ \A j \in 1..Len(item) : item[j] # " "

DirectiveName(item) ==
    LET eq == IndexOf(item, <<"=">>, 0)
    IN  IF eq = -1 THEN item ELSE Substring(item, 0, eq)

\* what a lookup of the directive is to yield: its value, or its bare name
DirectiveResult(item) ==
    LET eq == IndexOf(item, <<"=">>, 0)
    IN  IF eq = -1 THEN item ELSE Substring(item, eq + 1, Len(item))

\* name stands at index at of str as a whole token
WholeTokenAt(str, name, at) ==
    /\ OccursAt(str, name, at)
    /\ \/ at = 0
       \/ CharAt(str, at - 1) = ","
       \/ CharAt(str, at - 1) = " " /\ CharAt(str, at - 2) = ","
    /\ CharAt(str, at + Len(name)) \in {"=", ",", Undefined}

\* C8: in a well-formed list, looking up the name of a directive of the list
\* yields that directive's value, or its bare name for a flag, never null.
C8_PresentDirectiveIsFound ==
    (/\ pc = "parsed"
     /\ maxIterationCount = MAX_SAFE_INTEGER
     /\ WellFormedList(headerStr)
     /\ \E k \in 1..Len(ListItems(headerStr)) :
            DirectiveName(ListItems(headerStr)[k]) = targetDir)
    => directive \in
          {DirectiveResult(ListItems(headerStr)[k]) :
              k \in {j \in 1..Len(ListItems(headerStr)) :
                        DirectiveName(ListItems(headerStr)[j]) = targetDir}}

\* C9: a lookup yields a result other than null only if the name stands in
\* the header as a whole token; stated here for the non-empty names and the
\* default iteration limit.
C9_ResultOnlyForWholeToken ==
    (/\ pc = "parsed"
     /\ maxIterationCount = MAX_SAFE_INTEGER
     /\ targetDir # <<>>
     /\ directive # Null)
    => \E at \in 0..Len(headerStr) : WholeTokenAt(headerStr, targetDir, at)

\* the Cache-Control value has no-store, no-cache or max-age=0 among its
\* directives
DeniesCaching(cacheControl) ==
    \E k \in 1..Len(ListItems(cacheControl)) :
        ListItems(cacheControl)[k] \in {no_store, no_cache, MaxAgeDirective(0)}

\* C3: checkIfShouldCache is false for every header set whose Cache-Control
\* has the directive no-store, no-cache or max-age=0, whatever the other
\* headers, the layout of the list and the reference time.
C3_DenyingDirectiveIsNotCached ==
    (/\ pc = "decided"
     /\ verdict.op = "checkIfShouldCache"
     /\ DeniesCaching(headers.cc))
    => verdict.value = FALSE

\* the header set carries Cache-Control: max-age=n and a Date header
CarriesMaxAgeAndDate(h, n) ==
    /\ h.cc \in {MaxAgeDirective(n), MaxAgeDirectiveAfterTab(n)}
    /\ h.date # ""

\* parse(D) + N*1000 < t
MaxAgeElapsed(h, n, t) ==
    NumLt(NumAdd(DateParse(h.date), Num(n * 1000)), Num(t))

\* the header set has an Expires header that lies before t
ExpiresElapsed(h, t) == h.expires # "" /\ NumLt(DateParse(h.expires), Num(t))

\* C7 as first stated: with Cache-Control: max-age=N and Date: D, whatever
\* the other headers, isCacheExpired is true exactly when
\* parse(D) + N*1000 < t.
C7_ExpiredIffMaxAgeElapsed ==
    (pc = "decided" /\ verdict.op = "isCacheExpired")
    => \A n \in 0..MaxMaxAge :
          CarriesMaxAgeAndDate(headers, n)
          => (verdict.value <=> MaxAgeElapsed(headers, n, currentDate))

\* C7, amended: with Cache-Control: max-age=N and Date: D, isCacheExpired is
\* true exactly when parse(D) + N*1000 < t or an Expires header lies before
\* t; at parse(D) + N*1000 = t, without such an Expires header, the entry is
\* not expired.
C7_ExpiredIffMaxAgeOrExpiresElapsed ==
    (pc = "decided" /\ verdict.op = "isCacheExpired")
    => \A n \in 0..MaxMaxAge :
          CarriesMaxAgeAndDate(headers, n)
          => (verdict.value <=> (\/ MaxAgeElapsed(headers, n, currentDate)
                                 \/ ExpiresElapsed(headers, currentDate)))

\* isCacheExpired has answered for max-age=1 and a Date exactly one second
\* before the reference time: the entry is not expired.
C7_Witness ==
    /\ pc = "decided"
    /\ verdict.op = "isCacheExpired"
    /\ CarriesMaxAgeAndDate(headers, 1)
    /\ DateParse(headers.date) = Num(currentDate - 1000)
    /\ headers.expires = ""
    /\ verdict.value = FALSE

CallKey(i) == Key(calls[i].resource, calls[i].options)

\* C1: once a fetch has resolved and stored its response, a fetch of the
\* same resource and options issued right after it (no time elapsed, no
\* sweep in between) is answered with the same status and headers and does
\* not invoke the transport.
C1_RoundTrip ==
    [][ (/\ last.op = "resolve"
         /\ calls[last.call].stored
         /\ last'.op = "fetch"
         /\ Key(calls'[last'.call].resource, calls'[last'.call].options)
               = CallKey(last.call))
        => (/\ calls'[last'.call].state = "hit"
            /\ calls'[last'.call].transport = 0
            /\ calls'[last'.call].response.status
                  = calls[last.call].response.status
            /\ calls'[last'.call].response.headers
                  = calls[last.call].response.headers) ]_vars

\* the entry that fetch call c found in the store was usable when c was made
FoundFresh(c) ==
    c.found # NoResponse /\ ~isCacheExpired(c.found.headers, c.at)

\* C2: a fetch is answered from the store only when the stored entry is not
\* expired at the time of the call, and then without the transport; on a
\* miss or an expired entry the transport is invoked exactly once and its
\* response is what the caller gets.
C2_StoreAnswersOnlyWhenFresh ==
    \A i \in DOMAIN calls :
        LET c == calls[i]
        IN  c.resource # ""
            => /\ c.state = "hit" <=> FoundFresh(c)
               /\ c.state = "hit"
                    => c.transport = 0 /\ c.response = c.found
               /\ c.state # "hit" => c.transport = 1
               /\ c.state = "resolved" => c.response.origin = i

\* a fetch found an entry that had expired, and went to the transport
C2_Witness ==
    \E i \in DOMAIN calls :
        /\ calls[i].found # NoResponse
        /\ isCacheExpired(calls[i].found.headers, calls[i].at)
        /\ calls[i].state = "resolved"
        /\ calls[i].response.origin = i

\* C4: there is never more than one active sweep timer, and it is the one
\* that was started last.
C4_OneActiveTimer ==
    pc = "interval"
    => /\ Cardinality(timers) <= 1
       /\ \A t \in timers : t.id = cleanupCacheInterval.timer

\* the values the claim calls invalid: 0, a negative number, NaN, a non-number
InvalidForTheClaim(arg) == arg.type # "number" \/ arg.nan \/ arg.v <= 0

\* C5: setting the interval to an invalid value leaves the interval value
\* and the active timers as they were.
C5_InvalidIntervalIsRejected ==
    [][ (last'.op \in {"set", "assign"} /\ InvalidForTheClaim(last'.arg))
        => (/\ cleanupCacheIntervalTimeMS' = cleanupCacheIntervalTimeMS
            /\ timers' = timers
            /\ cleanupCacheInterval' = cleanupCacheInterval) ]_vars

\* C6: after clearAllCache() the store is empty.
C6_ClearAllEmptiesStore ==
    last.op = "clearAllCache" => DOMAIN cachedResponses = {}

\* the fetch calls made for key k
CallsFor(k) == {i \in DOMAIN calls : calls[i].resource # "" /\ CallKey(i) = k}

\* the calls of cs were all in flight together, on a key that was not in the
\* store, and all have resolved with a response that was stored
ConcurrentAndStored(cs) ==
    /\ Cardinality(cs) >= 2
    /\ \A i \in cs : /\ calls[i].state = "resolved"
                     /\ calls[i].stored
                     /\ calls[i].found = NoResponse
    /\ \A i, j \in cs : calls[i].issuedAfter < calls[j].order

\* the call of cs that resolved last
LastResolved(cs) == CHOOSE i \in cs : \A j \in cs : calls[j].order <= calls[i].order

\* C10: after N concurrent fetches of one uncached key have resolved with
\* cacheable responses, each caller has the response of its own transport
\* call and the store holds one entry for the key, the response stored last;
\* stated here for the fetches that were all made at the present instant.
C10_LastWriteWins ==
    \A resource \in Resources, options \in OptionSets :
        LET k == Key(resource, options)
            cs == CallsFor(k)
        IN  (ConcurrentAndStored(cs) /\ \A i \in cs : calls[i].at = now)
            => /\ \A i \in cs : calls[i].response.origin = i
               /\ k \in DOMAIN cachedResponses
               /\ cachedResponses[k] = calls[LastResolved(cs)].response

\* entry r of the store is expired at t
EntryExpired(r, t) == isCacheExpired(r.headers, t)

\* C11: a sweep at time t deletes exactly the entries that are expired at t:
\* none of them is left, and every other entry is still there, unchanged.
C11_SweepDeletesExactlyTheExpired ==
    [][ last'.op = "cleanup"
        => /\ DOMAIN cachedResponses' \subseteq DOMAIN cachedResponses
           /\ \A k \in DOMAIN cachedResponses' :
                 /\ cachedResponses'[k] = cachedResponses[k]
                 /\ ~EntryExpired(cachedResponses'[k], now)
           /\ \A k \in DOMAIN cachedResponses \ DOMAIN cachedResponses' :
                 EntryExpired(cachedResponses[k], now) ]_vars

\* a sweep has just run that deleted the entry of one fetch and left the
\* entry of another
C11_Witness ==
    /\ last.op = "cleanup"
    /\ \E i \in DOMAIN calls :
          calls[i].stored /\ CallKey(i) \notin DOMAIN cachedResponses
    /\ \E i \in DOMAIN calls :
          /\ calls[i].stored
          /\ CallKey(i) \in DOMAIN cachedResponses
          /\ cachedResponses[CallKey(i)] = calls[i].response

\* C12: cleanup is idempotent: on the store a sweep has just left, one more
\* sweep, and one after that, change nothing.
C12_SweepIsIdempotent ==
    last.op = "cleanup"
    => /\ cleanup(cachedResponses, now) = cachedResponses
       /\ cleanup(cleanup(cachedResponses, now), now) = cachedResponses

\* a sweep has just run that deleted the entry of one fetch and left a store
\* that is not empty
C12_Witness ==
    /\ last.op = "cleanup"
    /\ DOMAIN cachedResponses # {}
    /\ \A k \in DOMAIN cachedResponses : ~EntryExpired(cachedResponses[k], now)
    /\ \E i \in DOMAIN calls :
          calls[i].stored /\ CallKey(i) \notin DOMAIN cachedResponses

\* C13: a fetch of an empty resource is rejected at once: no transport call,
\* and the store as it was.
C13_EmptyResourceIsRejected ==
    [][ (last'.op = "fetch" /\ calls'[last'.call].resource = "")
        => /\ calls'[last'.call].state = "rejected"
           /\ calls'[last'.call].transport = 0
           /\ cachedResponses' = cachedResponses ]_vars

\* a fetch of the empty resource has just been rejected while the store held
\* an entry
C13_Witness ==
    /\ last.op = "fetch"
    /\ calls[last.call].resource = ""
    /\ calls[last.call].state = "rejected"
    /\ DOMAIN cachedResponses # {}

\* C14: when the transport call of a fetch fails, the store is as it was and
\* no promise is left rejected without a handler.
C14_FailureRaisesNothingMore ==
    \A i \in DOMAIN calls : calls[i].state = "failed" => ~calls[i].unhandled

\* C17: a fetch changes the store only when its transport call resolves with
\* a response that checkIfShouldCache accepts; the call itself, a hit, a
\* response that is not cacheable and a continuation that throws leave every
\* entry as it was; and the promise of the caller is fulfilled with the
\* transport's response in each case, a throw of the continuation included.
C17_StoreChangesOnlyForCacheable ==
    [][ /\ last'.op = "fetch" => cachedResponses' = cachedResponses
        /\ last'.op = "resolve"
           => LET i == last'.call
                  c == calls'[i]
                  key == Key(c.resource, c.options)
                  cacheable == checkIfShouldCache(c.response.headers, now)
                  failure == /\ cacheable
                             /\ \/ calls[i].unserialisable
                                \/ TransportObject(i) \in consumed
              IN  /\ c.state = "resolved"
                  /\ c.response.origin = i
                  /\ IF cacheable /\ ~failure
                     THEN /\ cachedResponses'[key] = c.response
                          /\ \A k \in DOMAIN cachedResponses \ {key} :
                                cachedResponses'[k] = cachedResponses[k]
                     ELSE cachedResponses' = cachedResponses ]_vars

\* the continuation of a fetch has thrown on a cacheable response while the
\* store held an entry, expired by now, for the same key: the entry is as it
\* was and the caller has the transport's response
C17_Witness ==
    /\ last.op = "resolve"
    /\ calls[last.call].unhandled
    /\ checkIfShouldCache(calls[last.call].response.headers, now)
    /\ calls[last.call].state = "resolved"
    /\ calls[last.call].response.origin = last.call
    /\ calls[last.call].found # NoResponse
    /\ CallKey(last.call) \in DOMAIN cachedResponses
    /\ cachedResponses[CallKey(last.call)] = calls[last.call].found

\* C19: a response is fresh at the moment the continuation of a fetch puts
\* it in the store.
C19_StoredEntriesAreFresh ==
    (last.op = "resolve" /\ calls[last.call].stored)
    => ~EntryExpired(cachedResponses[CallKey(last.call)], now)

\* C20 as claimed: with the default limit getCacheControlDirective returns
\* for every header and name; every pass of the loop leaves the loop or
\* moves startIndex strictly forward; the passes counted by i are at most as
\* many as the header has characters; and the limit never ends the scan.
C20_EveryPassExitsOrMovesForward ==
    /\ <>(maxIterationCount = MAX_SAFE_INTEGER => pc = "returned")
    /\ [][ (maxIterationCount = MAX_SAFE_INTEGER /\ pc = "loop")
           => \/ pc' = "exit"
              \/ locals'.startIndex > locals.startIndex ]_vars
    /\ [](maxIterationCount = MAX_SAFE_INTEGER
          => /\ locals.i <= Len(headerStr)
             /\ locals.exit # "limit")

\* C20: getCacheControlDirective returns for every header and name; with
\* the default limit the limit never ends the scan; every pass of the loop
\* leaves the loop, ends the search (startIndex -1, the break of the next
\* pass) or moves startIndex strictly forward; and the passes counted by i
\* are at most as many as the header has characters (one for the empty
\* header).
C20_ScanTerminates ==
    /\ <>(pc = "returned")
    /\ [][ pc = "loop"
           => \/ pc' = "exit"
              \/ locals'.startIndex = -1
              \/ locals'.startIndex > locals.startIndex ]_vars
    /\ [](locals.i <= IF Len(headerStr) = 0 THEN 1 ELSE Len(headerStr))
    /\ [](maxIterationCount = MAX_SAFE_INTEGER => locals.exit # "limit")

\* a scan under the default limit has returned a directive it found in its
\* second pass or later, after moving forward from a match it refused
C20_Witness ==
    /\ pc = "returned"
    /\ maxIterationCount = MAX_SAFE_INTEGER
    /\ locals.exit = "found"
    /\ locals.i >= 2
    /\ directive # Null

\* the fields of an options object, whatever their order; a field whose
\* value is undefined counts as absent
FieldsOf(options) ==
    {options[n] : n \in {m \in 1..Len(options) : options[m][2] # "undefined"}}

\* C15: two requests for the same resource whose options hold the same
\* fields and values, in whatever order, have the same key; two requests for
\* the same resource whose options differ in a field or a value have
\* different keys.
C15_KeyIgnoresFieldOrder ==
    (pc = "keyed" /\ requests[1].resource = requests[2].resource)
    => (FieldsOf(requests[1].options) = FieldsOf(requests[2].options)
        <=> fingerprints[1] = fingerprints[2])

\* the objects that are entries of the store
StoredObjects ==
    {StoredObject(cachedResponses[k]) : k \in DOMAIN cachedResponses}

\* the calls whose caller has a response
Answered == {i \in DOMAIN calls : calls[i].state \in {"hit", "resolved"}}

\* C16: the body of every entry of the store is unread, whatever the callers
\* have read; no caller holds the object that is in the store, and no two
\* callers hold the same object.
C16_StoredBodyIsUnconsumed ==
    /\ StoredObjects \cap consumed = {}
    /\ \A i \in Answered : CallerObject(i) \notin StoredObjects
    /\ \A i, j \in Answered : CallerObject(i) = CallerObject(j) => i = j

\* the caller whose response was stored and a caller served from the store
\* have both read their bodies, and the entry is still in the store
C16_Witness ==
    \E i, j \in Answered :
        /\ calls[i].stored /\ calls[j].state = "hit"
        /\ CallKey(i) = CallKey(j)
        /\ calls[j].found.origin = i
        /\ {CallerObject(i), CallerObject(j)} \subseteq consumed
        /\ CallKey(i) \in DOMAIN cachedResponses
        /\ cachedResponses[CallKey(i)].origin = i

\* the entry for key k is the response stored by call i
Holds(k, i) ==
    /\ k \in DOMAIN cachedResponses
    /\ cachedResponses[k].origin = i

\* the keys of the requests of a run
LiveKeys == {Key("/a", options) : options \in OptionSets}

\* The headers give an expiry time: a Cache-Control and a Date that
\* Date.parse reads, with a max-age that is absent, empty or read as a number
\* by parseInt (lines 96-100), or an Expires that Date.parse reads (line
\* 106).  The numbers of the model are finite.
Expirable(h) ==
    \/ /\ h.cc # <<>>
       /\ h.date # ""
       /\ ~DateParse(h.date).nan
       /\ LET d == getCacheControlDirective(h.cc, max_age)
          IN  d = Null \/ d = <<>> \/ ~ParseInt(d).nan
    \/ /\ h.expires # ""
       /\ ~DateParse(h.expires).nan

\* C18 as claimed: every entry of the store is eventually deleted by a
\* sweep or overwritten by the response of another call.
C18_EveryEntryIsEventuallyRemoved ==
    \A k \in LiveKeys, i \in 1..MaxLiveCalls :
        Holds(k, i) ~> ~Holds(k, i)

\* C18: every entry of the store whose headers give an expiry time is
\* eventually deleted by a sweep or overwritten by the response of another
\* call; an entry whose headers give none stays in the store until the
\* response of another call overwrites it.
C18_ExpirableEntryIsEventuallyRemoved ==
    /\ \A k \in LiveKeys, i \in 1..MaxLiveCalls :
          (Holds(k, i) /\ Expirable(cachedResponses[k].headers))
              ~> ~Holds(k, i)
    /\ [][ \A k \in LiveKeys, i \in 1..MaxLiveCalls :
             (Holds(k, i) /\ ~Expirable(cachedResponses[k].headers))
             => /\ k \in DOMAIN cachedResponses'
                /\ \/ cachedResponses'[k].origin = i
                   \/ last'.op = "resolve" ]_vars

\* after all expiries a sweep has deleted an entry that had an expiry time
\* and has left one that has a Date and a max-age that is not a number
C18_Witness ==
    /\ now = FarFuture
    /\ last.op = "cleanup"
    /\ \E i \in DOMAIN calls :
          /\ calls[i].stored
          /\ Expirable(calls[i].response.headers)
          /\ ~Holds(CallKey(i), i)
    /\ \E j \in DOMAIN calls :
          /\ calls[j].stored
          /\ calls[j].response.headers.cc = max_age_abc
          /\ ~DateParse(calls[j].response.headers.date).nan
          /\ ~Expirable(calls[j].response.headers)
          /\ Holds(CallKey(j), j)

====
